---- MODULE Spec2Model ----
(***************************************************************************)
(* Weather Dashboard API (src/main.py): the TTL cache, the three request   *)
(* handlers that sit on it, and the forecast aggregation.                  *)
(*                                                                         *)
(* Texts (location, query) are sequences of one-character strings, so that *)
(* str.split(",") and float() are computed, not assumed.  Time is in whole *)
(* seconds.  A cache key is the string that get_cache_key hashes; md5 is   *)
(* taken to be free of collisions on the small corpus used here.           *)
(***************************************************************************)
EXTENDS Integers, Sequences, FiniteSets, TLC

VARIABLES
    weather_cache,  \* main.py:24  key -> [data, timestamp]
    now,            \* datetime.now(), in seconds
    ticks,          \* how many times the clock has advanced
    cache_obs,      \* the last direct cache operation and what it returned
    last_put,       \* history: key -> the most recent cache_data(key, ..)
    agg_list,       \* data["list"], the provider's samples
    agg_runs,       \* how many runs of samples agg_list was built from
    agg_days,       \* the days argument of the aggregation that ran
    agg_items,      \* forecast_items, once the aggregation ran
    agg_pc,         \* "input" while the samples arrive, then "done"
    client_req,     \* the request the clients of this run send
    pc,             \* request -> "idle", "awaiting" (client.get) or "done"
    req,            \* request -> its endpoint and query parameters
    lookup,         \* history: request -> the valid entry its key had at lookup
    seen,           \* history, kept for concurrent requests only: request ->
                    \* whether its lookup removed a stale entry, and the
                    \* requests then waiting for client.get
    url,            \* request -> the upstream URL it built
    calls,          \* history: request -> upstream calls it has made
    response,       \* request -> the upstream's answer
    result,         \* request -> what the handler returned or raised
    key_args,       \* two (endpoint, params) arguments of get_cache_key
    key_out         \* the keys get_cache_key built for them

cache_vars == <<weather_cache, now, ticks, cache_obs, last_put>>
agg_vars == <<agg_list, agg_runs, agg_days, agg_items, agg_pc>>
req_vars == <<client_req, pc, req, lookup, seen, url, calls, response, result>>
key_vars == <<key_args, key_out>>
vars == <<cache_vars, agg_vars, req_vars, key_vars>>

----------------------------------------------------------------------------
(* Configuration *)

CACHE_DURATION == 600

\* Bounds of the exploration.
MaxCacheTicks == 3
MaxRuns == 2
MaxTicks == 1
NumReqs == 2
MaxParams == 2

----------------------------------------------------------------------------
(* Python values *)

None == [kind |-> "None"]

\* A list, as returned by search_locations.
PyList(items) == [kind |-> "list", items |-> items]

\* bool(v): None and the empty list are falsy; pydantic models are truthy.
Truthy(v) ==
    CASE v.kind = "None" -> FALSE
      [] v.kind = "list" -> Len(v.items) > 0
      [] OTHER -> TRUE

----------------------------------------------------------------------------
(* Cache utilities, main.py:93-118 *)

EmptyCache == [k \in {} |-> None]

\* is_cache_valid with the comparison turned around at the boundary.
is_cache_valid_inclusive(timestamp, t) == t - timestamp <= CACHE_DURATION

\* datetime.now() - timestamp < timedelta(seconds=CACHE_DURATION)
is_cache_valid(timestamp, t) == t - timestamp < CACHE_DURATION

\* weather_cache[key]["data"] = data: an entry updated in place keeps the
\* time of the put before.
cache_data_in_place(cache, key, data, t) ==
    [k \in (DOMAIN cache) \cup {key} |->
        IF k = key
        THEN [data |-> data,
              timestamp |-> IF key \in DOMAIN cache THEN cache[key].timestamp ELSE t]
        ELSE cache[k]]

\* weather_cache[key] = {"data": data, "timestamp": datetime.now()}
cache_data(cache, key, data, t) ==
    [k \in (DOMAIN cache) \cup {key} |->
        IF k = key THEN [data |-> data, timestamp |-> t] ELSE cache[k]]

\* What get_cached_data returns.
get_cached_data(cache, key, t) ==
    IF key \in DOMAIN cache /\ is_cache_valid(cache[key].timestamp, t)
    THEN cache[key].data
    ELSE None

\* A lookup that sweeps every expired entry, not only the one looked up.
cache_after_get_sweep(cache, key, t) ==
    [k \in {j \in DOMAIN cache : is_cache_valid(cache[j].timestamp, t)} |-> cache[k]]

\* A lookup that restamps the entry it returns (sliding expiry).
cache_after_get_sliding(cache, key, t) ==
    IF key \in DOMAIN cache
    THEN IF is_cache_valid(cache[key].timestamp, t)
         THEN [cache EXCEPT ![key].timestamp = t]
         ELSE [k \in (DOMAIN cache) \ {key} |-> cache[k]]
    ELSE cache

\* A lookup that deletes the entry it finds, expired or not.
cache_after_get_drop(cache, key, t) ==
    [k \in (DOMAIN cache) \ {key} |-> cache[k]]

\* The cache get_cached_data leaves behind: an expired entry is deleted.
cache_after_get(cache, key, t) ==
    IF key \in DOMAIN cache /\ ~is_cache_valid(cache[key].timestamp, t)
    THEN [k \in (DOMAIN cache) \ {key} |-> cache[k]]
    ELSE cache

\* Statistics that drop the entries they find expired.
cache_after_stats_evicting(cache, t) ==
    [k \in {j \in DOMAIN cache : is_cache_valid(cache[j].timestamp, t)} |-> cache[k]]

\* get_cache_stats only reads weather_cache, main.py:366-381.
cache_after_stats(cache, t) == cache

\* What get_cache_stats returns, main.py:375-381.  Fewer than ten keys are
\* stored here, so cache_keys lists them all; their order is not modelled.
get_cache_stats(cache, t) ==
    [total_cache_items |-> Cardinality(DOMAIN cache),
     valid_cache_items |->
        Cardinality({k \in DOMAIN cache : is_cache_valid(cache[k].timestamp, t)}),
     expired_cache_items |->
        Cardinality({k \in DOMAIN cache : ~is_cache_valid(cache[k].timestamp, t)}),
     cache_duration_seconds |-> CACHE_DURATION,
     cache_keys |-> DOMAIN cache]

\* len(weather_cache) taken after the cache was reset.
items_removed_after_reset(cache) == Cardinality(DOMAIN EmptyCache)

\* cache_count = len(weather_cache), main.py:387
items_removed(cache) == Cardinality(DOMAIN cache)

----------------------------------------------------------------------------
(* Requests *)

Reqs == 1..NumReqs

NoReq == [endpoint |-> "none"]
NoEntry == [valid |-> FALSE]
NoSeen == [stale |-> FALSE, peers |-> {}]
NoUrl == [path |-> "none"]
NoResponse == [kind |-> "none"]
NoResult == [kind |-> "none"]

ReqIdle ==
    /\ client_req = NoReq
    /\ pc = [r \in Reqs |-> "idle"]
    /\ req = [r \in Reqs |-> NoReq]
    /\ lookup = [r \in Reqs |-> NoEntry]
    /\ seen = [r \in Reqs |-> NoSeen]
    /\ url = [r \in Reqs |-> NoUrl]
    /\ calls = [r \in Reqs |-> 0]
    /\ response = [r \in Reqs |-> NoResponse]
    /\ result = [r \in Reqs |-> NoResult]

----------------------------------------------------------------------------
(* The cache on its own: direct calls of its functions under a clock. *)

CacheKeys == {"k1", "k2"}
CacheValues == {PyList(<<>>), PyList(<<"x">>), PyList(<<"y">>)}
CacheTickSteps == {1, CACHE_DURATION - 1}

NoObs == [op |-> "none"]
NoPut == [k \in CacheKeys |-> [put |-> FALSE]]

NoArgs == [endpoint |-> "none", params |-> <<>>]
NoKeys == [built |-> FALSE]

KeyIdle ==
    /\ key_args = <<NoArgs, NoArgs>>
    /\ key_out = NoKeys

AggIdle ==
    /\ agg_list = <<>>
    /\ agg_runs = 0
    /\ agg_days = 0
    /\ agg_items = <<>>
    /\ agg_pc = "input"

CacheInit ==
    /\ AggIdle
    /\ ReqIdle
    /\ KeyIdle
    /\ weather_cache = EmptyCache
    /\ now = 0
    /\ ticks = 0
    /\ cache_obs = NoObs
    /\ last_put = NoPut

CachePut(k, v) ==
    /\ weather_cache' = cache_data(weather_cache, k, v, now)
    /\ last_put' = [last_put EXCEPT ![k] = [put |-> TRUE, data |-> v, at |-> now]]
    /\ cache_obs' = [op |-> "put", key |-> k,
                     replaced |-> IF k \in DOMAIN weather_cache
                                  THEN [stored |-> TRUE, entry |-> weather_cache[k]]
                                  ELSE [stored |-> FALSE]]
    /\ UNCHANGED <<now, ticks, agg_vars, req_vars, key_vars>>

CacheGet(k) ==
    /\ weather_cache' = cache_after_get(weather_cache, k, now)
    /\ cache_obs' = [op |-> "get", key |-> k, at |-> now,
                     before |-> weather_cache,
                     result |-> get_cached_data(weather_cache, k, now)]
    /\ UNCHANGED <<now, ticks, last_put, agg_vars, req_vars, key_vars>>

\* clear_cache, main.py:383-394
CacheClear ==
    /\ weather_cache' = EmptyCache
    /\ cache_obs' = [op |-> "clear", before |-> weather_cache,
                     items_removed |-> items_removed(weather_cache)]
    /\ UNCHANGED <<now, ticks, last_put, agg_vars, req_vars, key_vars>>

\* get_cache_stats, main.py:363-381
CacheStats ==
    /\ weather_cache' = cache_after_stats(weather_cache, now)
    /\ cache_obs' = [op |-> "stats", at |-> now, before |-> weather_cache,
                     stats |-> get_cache_stats(weather_cache, now)]
    /\ UNCHANGED <<now, ticks, last_put, agg_vars, req_vars, key_vars>>

Tick(d, max) ==
    /\ ticks < max
    /\ now' = now + d
    /\ ticks' = ticks + 1

CacheTick ==
    /\ \E d \in CacheTickSteps : Tick(d, MaxCacheTicks)
    /\ UNCHANGED <<weather_cache, cache_obs, last_put, agg_vars, req_vars, key_vars>>

CacheNext ==
    \/ \E k \in CacheKeys, v \in CacheValues : CachePut(k, v)
    \/ \E k \in CacheKeys : CacheGet(k)
    \/ CacheClear
    \/ CacheStats
    \/ CacheTick

SpecCache == CacheInit /\ [][CacheNext]_vars

----------------------------------------------------------------------------
(* C1: get(k) returns the value of the most recent put(k) exactly when an  *)
(* entry for k is stored and now - insertedAt < TTL; otherwise, and also   *)
(* at now - insertedAt = TTL, it returns absent.                           *)

Stored(cache, k) == k \in DOMAIN cache
Age(cache, k, t) == t - cache[k].timestamp

C1_GetFreshOrAbsent ==
    cache_obs.op = "get" =>
        LET k == cache_obs.key
            c == cache_obs.before
        IN  IF Stored(c, k) /\ Age(c, k, cache_obs.at) < 600
            THEN /\ last_put[k].put
                 /\ c[k].timestamp = last_put[k].at
                 /\ cache_obs.result = last_put[k].data
            ELSE cache_obs.result = None

\* A get at age TTL - 1 that hit, and one at age exactly TTL that did not.
C1_Witness ==
    /\ cache_obs.op = "get"
    /\ Stored(cache_obs.before, cache_obs.key)
    /\ Age(cache_obs.before, cache_obs.key, cache_obs.at) = 599
    /\ cache_obs.result = PyList(<<>>)

C1_WitnessBoundary ==
    /\ cache_obs.op = "get"
    /\ Stored(cache_obs.before, cache_obs.key)
    /\ Age(cache_obs.before, cache_obs.key, cache_obs.at) = 600
    /\ cache_obs.result = None

----------------------------------------------------------------------------
(* C11: a get(k) that finds a stale entry for k (now - insertedAt >= TTL)  *)
(* removes exactly that entry, so the stored-item count shrinks by one and *)
(* a stats() that follows counts k neither in total nor in valid nor in    *)
(* expired; stale entries of other keys stay stored until they are looked  *)
(* up themselves or the cache is cleared.                                  *)

Without(cache, k) == [j \in (DOMAIN cache) \ {k} |-> cache[j]]

StaleGet ==
    /\ cache_obs.op = "get"
    /\ Stored(cache_obs.before, cache_obs.key)
    /\ Age(cache_obs.before, cache_obs.key, cache_obs.at) >= 600

\* The state a get of a stale entry leaves, and what stats() reports in it.
C11_StaleGetRemovesIt ==
    StaleGet =>
        LET k == cache_obs.key
            c == cache_obs.before
            others == (DOMAIN c) \ {k}
            s == get_cache_stats(weather_cache, now)
        IN  /\ weather_cache = Without(c, k)
            /\ Cardinality(DOMAIN weather_cache) = Cardinality(DOMAIN c) - 1
            /\ s.total_cache_items = Cardinality(others)
            /\ s.valid_cache_items =
                   Cardinality({j \in others : now - c[j].timestamp < 600})
            /\ s.expired_cache_items =
                   Cardinality({j \in others : now - c[j].timestamp >= 600})
            /\ k \notin s.cache_keys

\* An entry leaves the cache only by a get of its own key that found it
\* stale, or by a clear.
C11_OthersStay ==
    \A j \in (DOMAIN weather_cache) \ (DOMAIN weather_cache') :
        \/ cache_obs'.op = "clear"
        \/ /\ cache_obs'.op = "get"
           /\ cache_obs'.key = j
           /\ now - weather_cache[j].timestamp >= 600

C11_StaleEntryRemovedOnLookup ==
    /\ []C11_StaleGetRemovesIt
    /\ [][C11_OthersStay]_vars

\* A get removed the stale entry of one key while the equally stale entry
\* of the other key is still stored.
C11_Witness ==
    /\ StaleGet
    /\ \E j \in DOMAIN weather_cache :
          /\ j # cache_obs.key
          /\ now - weather_cache[j].timestamp >= 600
    /\ get_cache_stats(weather_cache, now).expired_cache_items = 1

----------------------------------------------------------------------------
(* C12: whatever the order in which the requests' puts run, put(k, v1) and *)
(* put(k, v2) leave k mapped to the value of one of them together with the *)
(* insertion time of that same put: the stored (value, insertedAt) pair is *)
(* never a mix of two puts.  cache_data holds no await, so the puts of     *)
(* concurrent requests run one after the other in some order.              *)

C12_StoredPairIsOnePut ==
    \A k \in DOMAIN weather_cache :
        /\ last_put[k].put
        /\ weather_cache[k] = [data |-> last_put[k].data,
                               timestamp |-> last_put[k].at]

\* A put replaced the entry of an earlier put of another value at another
\* time.
C12_Witness ==
    /\ cache_obs.op = "put"
    /\ cache_obs.replaced.stored
    /\ cache_obs.replaced.entry.data # weather_cache[cache_obs.key].data
    /\ cache_obs.replaced.entry.timestamp # weather_cache[cache_obs.key].timestamp

----------------------------------------------------------------------------
(* C15: stats() leaves the cache as it found it (no entry added, removed   *)
(* or restamped, also when it counts entries as expired) and reports       *)
(* total = valid + expired, where valid counts exactly the entries with    *)
(* now - insertedAt < TTL.                                                 *)

C15_StatsOnlyReads ==
    cache_obs.op = "stats" =>
        LET c == cache_obs.before
            s == cache_obs.stats
        IN  /\ weather_cache = c
            /\ s.total_cache_items = Cardinality(DOMAIN c)
            /\ s.total_cache_items = s.valid_cache_items + s.expired_cache_items
            /\ s.valid_cache_items =
                   Cardinality({k \in DOMAIN c : cache_obs.at - c[k].timestamp < 600})

\* A stats() that counted one valid and one expired entry; both are still
\* stored.
C15_Witness ==
    /\ cache_obs.op = "stats"
    /\ cache_obs.stats.valid_cache_items = 1
    /\ cache_obs.stats.expired_cache_items = 1
    /\ Cardinality(DOMAIN weather_cache) = 2

----------------------------------------------------------------------------
(* C16: clear() returns the number of entries stored just before it ran,   *)
(* valid and stale alike, and just after it the cache holds no entry, so   *)
(* get(k) is absent for every k until a later put.                         *)

\* The state clear() leaves and the count it returns.
C16_ClearEmpties ==
    cache_obs.op = "clear" =>
        /\ cache_obs.items_removed = Cardinality(DOMAIN cache_obs.before)
        /\ weather_cache = EmptyCache
        /\ \A k \in CacheKeys : get_cached_data(weather_cache, k, now) = None

\* A key enters the cache only by a put of that key.
C16_OnlyPutStores ==
    \A k \in (DOMAIN weather_cache') \ (DOMAIN weather_cache) :
        cache_obs'.op = "put" /\ cache_obs'.key = k

\* No get returns a value between a clear and the next put of its key.
C16_AbsentUntilPut ==
    (cache_obs.op = "get" /\ cache_obs.result # None) =>
        Stored(cache_obs.before, cache_obs.key)

C16_ClearRemovesAll ==
    /\ []C16_ClearEmpties
    /\ []C16_AbsentUntilPut
    /\ [][C16_OnlyPutStores]_vars

\* A clear() that removed one valid and one stale entry.
C16_Witness ==
    /\ cache_obs.op = "clear"
    /\ cache_obs.items_removed = 2
    /\ \E j, k \in DOMAIN cache_obs.before :
          /\ now - cache_obs.before[j].timestamp < 600
          /\ now - cache_obs.before[k].timestamp >= 600
    /\ weather_cache = EmptyCache

----------------------------------------------------------------------------
(* C19: reads never change a stored entry: neither a get(k) that hits nor  *)
(* stats() changes an entry's insertedAt or value, so expiry does not      *)
(* slide, and every value returned from the cache was stored by a put less *)
(* than TTL before the lookup.                                             *)

\* A stored entry changes only by a put of its key.
C19_OnlyPutChanges ==
    \A k \in (DOMAIN weather_cache) \cap (DOMAIN weather_cache') :
        weather_cache'[k] # weather_cache[k] =>
            cache_obs'.op = "put" /\ cache_obs'.key = k

\* A hit returns what the last put of the key stored, less than TTL ago.
C19_HitIsRecentPut ==
    (cache_obs.op = "get" /\ cache_obs.result # None) =>
        LET k == cache_obs.key
        IN  /\ last_put[k].put
            /\ cache_obs.result = last_put[k].data
            /\ cache_obs.at - last_put[k].at < 600
            /\ cache_obs.at - last_put[k].at >= 0

C19_ReadsDoNotMutate ==
    /\ [][C19_OnlyPutChanges]_vars
    /\ []C19_HitIsRecentPut

\* A hit at age TTL - 1: the entry is stored as before the lookup, with
\* the value and the time of its put.
C19_Witness ==
    /\ cache_obs.op = "get"
    /\ cache_obs.result = PyList(<<"x">>)
    /\ cache_obs.at - last_put[cache_obs.key].at = 599
    /\ Stored(weather_cache, cache_obs.key)
    /\ weather_cache[cache_obs.key] = cache_obs.before[cache_obs.key]
    /\ weather_cache[cache_obs.key].timestamp = last_put[cache_obs.key].at

----------------------------------------------------------------------------
(* Forecast aggregation, main.py:255-283 *)

\* Query(5, ge=1, le=5)
MinDays == 1
MaxDays == 5
\* data["list"][:days * 8]  -- 8 forecasts per day (3-hour intervals)
SamplesPerDay == 8

Min2(a, b) == IF a < b THEN a ELSE b

\* datetime.fromtimestamp(dt).strftime("%Y-%m-%d"), the server's zone being
\* UTC: the calendar day, counted from 1970-01-01.
DateOf(dt) == dt \div 86400

\* str.title() on the descriptions the provider sends here.
Title(s) ==
    CASE s = "clear sky" -> "Clear Sky"
      [] s = "light rain" -> "Light Rain"
      [] OTHER -> s

RECURSIVE SeqMin(_)
SeqMin(s) == IF Len(s) = 1 THEN s[1] ELSE Min2(s[1], SeqMin(Tail(s)))

RECURSIVE SeqMax(_)
SeqMax(s) ==
    IF Len(s) = 1 THEN s[1]
    ELSE LET m == SeqMax(Tail(s)) IN IF s[1] > m THEN s[1] ELSE m

RECURSIVE SeqSum(_)
SeqSum(s) == IF s = <<>> THEN 0 ELSE s[1] + SeqSum(Tail(s))

\* The whole list, the [:days * 8] slice forgotten.
forecast_window_all(list, days) == list

\* data["list"][:days * 8]
forecast_window(list, days) ==
    SubSeq(list, 1, Min2(Len(list), days * SamplesPerDay))

\* A bucket whose weather and wind follow the latest sample of the day.
add_to_day_last_wins(buckets, item) ==
    LET date == DateOf(item.dt)
    IN  IF \E i \in 1..Len(buckets) : buckets[i].date = date
        THEN [i \in 1..Len(buckets) |->
                IF buckets[i].date = date
                THEN [buckets[i] EXCEPT
                        !.temps = Append(@, item.temp),
                        !.humidity = Append(@, item.humidity),
                        !.weather = item.weather,
                        !.wind_speed = item.wind_speed]
                ELSE buckets[i]]
        ELSE Append(buckets, [date |-> date,
                              temps |-> <<item.temp>>,
                              humidity |-> <<item.humidity>>,
                              weather |-> item.weather,
                              wind_speed |-> item.wind_speed])

\* The body of the grouping loop, main.py:258-269.  daily_forecasts is a
\* dict, which keeps its keys in insertion order: a sequence of buckets.
add_to_day(buckets, item) ==
    LET date == DateOf(item.dt)
    IN  IF \E i \in 1..Len(buckets) : buckets[i].date = date
        THEN [i \in 1..Len(buckets) |->
                IF buckets[i].date = date
                THEN [buckets[i] EXCEPT
                        !.temps = Append(@, item.temp),
                        !.humidity = Append(@, item.humidity)]
                ELSE buckets[i]]
        ELSE Append(buckets, [date |-> date,
                              temps |-> <<item.temp>>,
                              humidity |-> <<item.humidity>>,
                              weather |-> item.weather,
                              wind_speed |-> item.wind_speed])

\* for item in data["list"][:days * 8]: ...
RECURSIVE group_by_day(_, _)
group_by_day(items, buckets) ==
    IF items = <<>> THEN buckets
    ELSE group_by_day(Tail(items), add_to_day(buckets, Head(items)))

\* Every bucket kept, the [:days] slice forgotten.
first_days_all(buckets, days) == buckets

\* list(daily_forecasts.items())[:days]
first_days(buckets, days) == SubSeq(buckets, 1, Min2(Len(buckets), days))

\* ForecastItem(...), main.py:274-283
ForecastItem(day_data) ==
    [date |-> day_data.date,
     temperature_min |-> SeqMin(day_data.temps),
     temperature_max |-> SeqMax(day_data.temps),
     humidity |-> SeqSum(day_data.humidity) \div Len(day_data.humidity),
     weather_main |-> day_data.weather.main,
     weather_description |-> Title(day_data.weather.description),
     icon |-> day_data.weather.icon,
     wind_speed |-> day_data.wind_speed]

\* forecast_items, main.py:255-283
forecast_items(list, days) ==
    LET daily_forecasts == group_by_day(forecast_window(list, days), <<>>)
        kept == first_days(daily_forecasts, days)
    IN  [i \in 1..Len(kept) |-> ForecastItem(kept[i])]

----------------------------------------------------------------------------
(* The aggregation on its own: a sample list arrives in runs of equal      *)
(* samples, then forecast_items is computed for some days in 1..5.         *)

SampleTimes == {3600, 50000, 90000}
SampleTemps == {10, 20}
Weathers == <<[main |-> "Clear", description |-> "clear sky", icon |-> "01d"],
              [main |-> "Rain", description |-> "light rain", icon |-> "10d"]>>

Sample(dt, temp, w) ==
    [dt |-> dt, temp |-> temp,
     humidity |-> IF w = 1 THEN 55 ELSE 80,
     weather |-> Weathers[w],
     wind_speed |-> IF w = 1 THEN 3 ELSE 7]

Samples == {Sample(dt, temp, w) :
                dt \in SampleTimes, temp \in SampleTemps, w \in 1..Len(Weathers)}
RunLengths == {1, SamplesPerDay, 2 * SamplesPerDay}

CacheIdle ==
    /\ weather_cache = EmptyCache
    /\ now = 0
    /\ ticks = 0
    /\ cache_obs = NoObs
    /\ last_put = NoPut

AggInit == AggIdle /\ CacheIdle /\ ReqIdle /\ KeyIdle

AggAppend(s, n) ==
    /\ agg_pc = "input"
    /\ agg_runs < MaxRuns
    /\ agg_list' = agg_list \o [i \in 1..n |-> s]
    /\ agg_runs' = agg_runs + 1
    /\ UNCHANGED <<agg_days, agg_items, agg_pc, cache_vars, req_vars, key_vars>>

AggRun(days) ==
    /\ agg_pc = "input"
    /\ agg_days' = days
    /\ agg_items' = forecast_items(agg_list, days)
    /\ agg_pc' = "done"
    /\ UNCHANGED <<agg_list, agg_runs, cache_vars, req_vars, key_vars>>

AggNext ==
    \/ \E s \in Samples, n \in RunLengths : AggAppend(s, n)
    \/ \E days \in MinDays..MaxDays : AggRun(days)

SpecAgg == AggInit /\ [][AggNext]_vars

\* The positions of agg_list that hold a sample of calendar day d.
OnDate(d) == {j \in 1..Len(agg_list) : DateOf(agg_list[j].dt) = d}
\* The part of them that lies in the first 8 * days samples.
InWindow(d) == {j \in OnDate(d) : j <= 8 * agg_days}
\* The calendar days of a set of positions.
DatesAt(S) == {DateOf(agg_list[j].dt) : j \in S}

IsMinOver(m, S) ==
    /\ \E j \in S : agg_list[j].temp = m
    /\ \A j \in S : m <= agg_list[j].temp
IsMaxOver(m, S) ==
    /\ \E j \in S : agg_list[j].temp = m
    /\ \A j \in S : m >= agg_list[j].temp

(* C7, as claimed: every summary's tempMin and tempMax are the minimum and *)
(* maximum over all input samples of the summary's date.                   *)
C7_MinMaxOverAllSamples ==
    agg_pc = "done" =>
        \A i \in 1..Len(agg_items) :
            /\ IsMinOver(agg_items[i].temperature_min, OnDate(agg_items[i].date))
            /\ IsMaxOver(agg_items[i].temperature_max, OnDate(agg_items[i].date))

(* C7, amended: every summary's tempMin and tempMax are the minimum and    *)
(* maximum over the samples of the summary's date among the first          *)
(* 8 * maxDays samples of the input.                                       *)
C7_MinMaxOverWindow ==
    agg_pc = "done" =>
        \A i \in 1..Len(agg_items) :
            /\ IsMinOver(agg_items[i].temperature_min, InWindow(agg_items[i].date))
            /\ IsMaxOver(agg_items[i].temperature_max, InWindow(agg_items[i].date))

\* A summary over a day with both temperatures, one sample of the day cut off.
C7_Witness ==
    /\ agg_pc = "done"
    /\ Len(agg_items) = 1
    /\ agg_items[1].temperature_min = 10
    /\ agg_items[1].temperature_max = 20
    /\ InWindow(agg_items[1].date) # OnDate(agg_items[1].date)

(* C8, as claimed: the aggregation returns min(maxDays, number of distinct *)
(* dates of the input) summaries, one per date, the first-encountered      *)
(* dates in first-seen order.                                              *)
FirstAt(d, S) == CHOOSE j \in S : (DateOf(agg_list[j].dt) = d /\
                    \A k \in S : DateOf(agg_list[k].dt) = d => j <= k)

FirstDatesOf(S) ==
    /\ Len(agg_items) = Min2(agg_days, Cardinality(DatesAt(S)))
    /\ \A i \in 1..Len(agg_items) : agg_items[i].date \in DatesAt(S)
    /\ \A i, k \in 1..Len(agg_items) :
          i < k => FirstAt(agg_items[i].date, S) < FirstAt(agg_items[k].date, S)
    /\ \A i \in 1..Len(agg_items) : \A d \in DatesAt(S) :
          FirstAt(d, S) < FirstAt(agg_items[i].date, S)
              => \E k \in 1..Len(agg_items) : agg_items[k].date = d

C8_CountOverAllSamples ==
    agg_pc = "done" => FirstDatesOf(1..Len(agg_list))

(* C8, amended: the aggregation returns min(maxDays, number of distinct    *)
(* dates among the first 8 * maxDays samples) summaries, one per date, the *)
(* first-encountered dates in first-seen order.                            *)
WindowPositions == {j \in 1..Len(agg_list) : j <= 8 * agg_days}

C8_CountOverWindow ==
    agg_pc = "done" => FirstDatesOf(WindowPositions)

\* Two dates in the window, one summary asked for: the second date is cut.
C8_Witness ==
    /\ agg_pc = "done"
    /\ agg_days = 1
    /\ Cardinality(DatesAt(WindowPositions)) = 2
    /\ Len(agg_items) = 1
    /\ agg_items[1].date = DateOf(agg_list[1].dt)

(* C9: every summary's weather code and text and its wind speed are those  *)
(* of the first input sample of the summary's date; later samples of that  *)
(* date never change them.                                                 *)
C9_FirstSampleWins ==
    agg_pc = "done" =>
        \A i \in 1..Len(agg_items) :
            LET first == agg_list[FirstAt(agg_items[i].date, 1..Len(agg_list))]
            IN  /\ agg_items[i].weather_main = first.weather.main
                /\ agg_items[i].icon = first.weather.icon
                /\ agg_items[i].weather_description
                      = Title(first.weather.description)
                /\ agg_items[i].wind_speed = first.wind_speed

\* A day whose first sample is clear and whose later sample is rain.
C9_Witness ==
    /\ agg_pc = "done"
    /\ Len(agg_items) = 1
    /\ agg_items[1].weather_main = "Clear"
    /\ agg_items[1].wind_speed = 3
    /\ \E j \in InWindow(agg_items[1].date) : agg_list[j].weather.main = "Rain"

----------------------------------------------------------------------------
(* Texts: str.split and float on sequences of characters *)

Contains(text, c) == \E i \in 1..Len(text) : text[i] = c

\* text.split(sep)
RECURSIVE Split(_, _)
Split(text, sep) ==
    IF ~Contains(text, sep) THEN <<text>>
    ELSE LET i == CHOOSE i \in 1..Len(text) :
                      text[i] = sep /\ \A j \in 1..(i - 1) : text[j] # sep
         IN  <<SubSeq(text, 1, i - 1)>> \o Split(SubSeq(text, i + 1, Len(text)), sep)

DigitChars == {"0", "1", "5"}

\* Whether float(field) returns rather than raises ValueError, for fields
\* over digits, ".", "-" and letters: an optional sign, then digits with at
\* most one point and at least one digit.
IsFloat(field) ==
    LET body == IF field # <<>> /\ field[1] = "-" THEN Tail(field) ELSE field
    IN  /\ \A i \in 1..Len(body) : body[i] \in DigitChars \cup {"."}
        /\ \E i \in 1..Len(body) : body[i] \in DigitChars
        /\ Cardinality({i \in 1..Len(body) : body[i] = "."}) <= 1

\* A two-field text is taken as coordinates whatever its fields are.
locate_lenient(location) ==
    IF Contains(location, ",") /\ Len(Split(location, ",")) = 2
        /\ \A i \in 1..2 : IsFloat(Split(location, ",")[i])
    THEN "latlon"
    ELSE "q"

\* main.py:170-177: which URL the location gives, or ValueError.
\* Every location is sent as a place name.
locate_as_name(location) == "q"

locate(location) ==
    IF Contains(location, ",") /\ Len(Split(location, ",")) = 2
    THEN IF \A i \in 1..2 : IsFloat(Split(location, ",")[i])
         THEN "latlon"
         ELSE "ValueError"
    ELSE "q"

----------------------------------------------------------------------------
(* Cache keys, main.py:94-97 *)

\* The parameter names in lexicographic order.
ParamNames == <<"days", "limit", "location", "query", "units">>
Rank(name) == CHOOSE i \in 1..Len(ParamNames) : ParamNames[i] = name

\* json.dumps(params, sort_keys=True): the pairs in the order of their names.
\* json.dumps(params): the pairs in the order of their insertion.
sort_keys_insertion_order(params) == params

sort_keys(params) ==
    LET n == Len(params)
        before(j) == Cardinality({k \in 1..n : Rank(params[k][1]) < Rank(params[j][1])})
    IN  [i \in 1..n |-> params[CHOOSE j \in 1..n : before(j) = i - 1]]

\* md5(f"{endpoint}:{param_str}"): the hashed string stands for its digest.
get_cache_key(endpoint, params) == <<endpoint, sort_keys(params)>>

\* The params dict each handler passes, in the order it writes them.
params_of(q) ==
    CASE q.endpoint = "current" ->
            <<<<"location", q.location>>, <<"units", q.units>>>>
      [] q.endpoint = "forecast" ->
            <<<<"location", q.location>>, <<"units", q.units>>, <<"days", q.days>>>>
      [] q.endpoint = "locations" ->
            <<<<"query", q.query>>, <<"limit", q.limit>>>>

key_of(q) == get_cache_key(q.endpoint, params_of(q))

----------------------------------------------------------------------------
(* get_cache_key on its own, over a corpus of endpoints and of params      *)
(* dicts given as the sequence of their insertions.                        *)

KeyEndpoints == {"current", "forecast"}
KeyNames == {ParamNames[i] : i \in 1..MaxParams}
KeyValues == {1, 2}

\* The dicts of at most MaxParams items: no name is inserted twice.
KeyParams ==
    {p \in UNION {[1..n -> KeyNames \X KeyValues] : n \in 0..MaxParams} :
        \A i, j \in 1..Len(p) : p[i][1] = p[j][1] => i = j}

KeyCorpus == [endpoint : KeyEndpoints, params : KeyParams]

KeyInit ==
    /\ AggIdle
    /\ CacheIdle
    /\ ReqIdle
    /\ key_args \in KeyCorpus \X KeyCorpus
    /\ key_out = NoKeys

BuildKeys ==
    /\ ~key_out.built
    /\ key_out' = [built |-> TRUE,
                   a |-> get_cache_key(key_args[1].endpoint, key_args[1].params),
                   b |-> get_cache_key(key_args[2].endpoint, key_args[2].params)]
    /\ UNCHANGED <<key_args, cache_vars, agg_vars, req_vars>>

KeyNext == BuildKeys

SpecKey == KeyInit /\ [][KeyNext]_vars

----------------------------------------------------------------------------
(* C17: over a bounded corpus of operation names and parameter mappings,   *)
(* build(op1, p1) equals build(op2, p2) exactly when op1 = op2 and p1 and  *)
(* p2 are the same mapping; the order in which the parameters were         *)
(* inserted never affects the fingerprint.                                 *)

\* The mapping a sequence of insertions builds.
Mapping(params) == {params[i] : i \in 1..Len(params)}

C17_KeyIdentifiesCall ==
    key_out.built =>
        (key_out.a = key_out.b
            <=> /\ key_args[1].endpoint = key_args[2].endpoint
                /\ Mapping(key_args[1].params) = Mapping(key_args[2].params))

\* One mapping of two parameters inserted in the two orders, one key.
C17_Witness ==
    /\ key_out.built
    /\ Len(key_args[1].params) = 2
    /\ key_args[1].params # key_args[2].params
    /\ Mapping(key_args[1].params) = Mapping(key_args[2].params)
    /\ key_args[1].endpoint = key_args[2].endpoint
    /\ key_out.a = key_out.b

\* Two operations with one mapping, two keys.
C17_WitnessEndpoint ==
    /\ key_out.built
    /\ key_args[1].endpoint # key_args[2].endpoint
    /\ key_args[1].params = key_args[2].params
    /\ key_out.a # key_out.b

----------------------------------------------------------------------------
(* Upstream payloads.  A JSON object is a function from its keys; a nested *)
(* key is written parent_child; a missing key is missing from the DOMAIN.  *)

Has(d, f) == f \in DOMAIN d
Drop(d, f) == [g \in (DOMAIN d) \ {f} |-> d[g]]
Get(d, f, default) == IF Has(d, f) THEN d[f] ELSE default

HTTPException(status_code, detail) ==
    [kind |-> "HTTPException", status_code |-> status_code, detail |-> detail]
KeyError == [kind |-> "KeyError"]
Ok(value) == [kind |-> "ok", value |-> value]

\* datetime.fromtimestamp(t)
FromTimestamp(t) == [datetime |-> t]

CurrentRequired ==
    {"name", "sys_country", "main_temp", "main_feels_like", "main_humidity",
     "main_pressure", "weather_main", "weather_description", "weather_icon",
     "sys_sunrise", "sys_sunset", "timezone"}

\* WeatherResponse(...), main.py:188-208
normalize_current(data, t) ==
    IF ~(CurrentRequired \subseteq DOMAIN data) THEN KeyError
    ELSE Ok([kind |-> "WeatherResponse",
             location |-> data.name,
             country |-> data.sys_country,
             temperature |-> data.main_temp,
             feels_like |-> data.main_feels_like,
             humidity |-> data.main_humidity,
             pressure |-> data.main_pressure,
             visibility |-> Get(data, "visibility", 0),
             wind_speed |-> Get(data, "wind_speed", 0),
             wind_direction |-> Get(data, "wind_deg", 0),
             weather_main |-> data.weather_main,
             weather_description |-> Title(data.weather_description),
             icon |-> data.weather_icon,
             sunrise |-> FromTimestamp(data.sys_sunrise),
             sunset |-> FromTimestamp(data.sys_sunset),
             timezone |-> data.timezone,
             timestamp |-> t])

ItemRequired == {"dt", "temp", "humidity", "weather", "wind_speed"}

\* main.py:253-290
normalize_forecast(data, days, t) ==
    IF ~Has(data, "list") THEN KeyError
    ELSE LET window == forecast_window(data.list, days)
         IN  IF \E i \in 1..Len(window) : ~(ItemRequired \subseteq DOMAIN window[i])
             THEN KeyError
             ELSE IF ~({"city_name", "city_country"} \subseteq DOMAIN data)
             THEN KeyError
             ELSE Ok([kind |-> "ForecastResponse",
                      location |-> data.city_name,
                      country |-> data.city_country,
                      forecast |-> forecast_items(data.list, days),
                      timestamp |-> t])

LocationRequired == {"name", "country", "lat", "lon"}

\* main.py:323-334
normalize_locations(data) ==
    IF \E i \in 1..Len(data.items) : ~(LocationRequired \subseteq DOMAIN data.items[i])
    THEN KeyError
    ELSE Ok(PyList([i \in 1..Len(data.items) |->
                [name |-> data.items[i].name,
                 country |-> data.items[i].country,
                 state |-> Get(data.items[i], "state", None),
                 lat |-> data.items[i].lat,
                 lon |-> data.items[i].lon]]))

\* The status checks of search_locations, applied to a weather request.
weather_status_as_locations(status) ==
    CASE status = 401 ->
            HTTPException(503, "Weather service unavailable - API key required")
      [] status # 401 /\ status # 200 ->
            HTTPException(503, "Weather service temporarily unavailable")
      [] OTHER -> NoResult

\* main.py:181-186 and 246-251: what the status makes the handler raise.
weather_status(status) ==
    CASE status = 401 ->
            HTTPException(503, "Weather service unavailable - API key required")
      [] status = 404 ->
            HTTPException(404, "Location not found")
      [] status \notin {401, 404, 200} ->
            HTTPException(503, "Weather service temporarily unavailable")
      [] OTHER -> NoResult

\* main.py:318-321
\* The location search answering a 404 as the weather endpoints do.
locations_status_not_found(status) ==
    CASE status = 401 ->
            HTTPException(503, "Location service unavailable - API key required")
      [] status = 404 ->
            HTTPException(404, "Location not found")
      [] status \notin {401, 404, 200} ->
            HTTPException(503, "Location service temporarily unavailable")
      [] OTHER -> NoResult

locations_status(status) ==
    CASE status = 401 ->
            HTTPException(503, "Location service unavailable - API key required")
      [] status # 401 /\ status # 200 ->
            HTTPException(503, "Location service temporarily unavailable")
      [] OTHER -> NoResult

\* What a handler returns or raises once client.get has answered.
handle_response(q, resp, t) ==
    IF resp.kind = "RequestError"
    THEN HTTPException(503, IF q.endpoint = "locations"
                             THEN "Unable to connect to location service"
                             ELSE "Unable to connect to weather service")
    ELSE LET raised == IF q.endpoint = "locations"
                       THEN locations_status(resp.status)
                       ELSE weather_status(resp.status)
         IN  IF raised # NoResult THEN raised
             ELSE CASE q.endpoint = "current" -> normalize_current(resp.body, t)
                    [] q.endpoint = "forecast" -> normalize_forecast(resp.body, q.days, t)
                    [] q.endpoint = "locations" -> normalize_locations(resp.body)

\* cache_data whatever the outcome was.
store_result_always(cache, key, res, t) ==
    cache_data(cache, key, IF res.kind = "ok" THEN res.value ELSE res, t)

\* cache_data(cache_key, ...) is reached only when nothing was raised.
\* Keeps the entry a concurrent request stored first.
store_result_keep_first(cache, key, res, t) ==
    IF res.kind = "ok" /\ key \notin DOMAIN cache
    THEN cache_data(cache, key, res.value, t)
    ELSE cache

store_result(cache, key, res, t) ==
    IF res.kind = "ok" THEN cache_data(cache, key, res.value, t) ELSE cache

\* A handler that asks the upstream again after a failure.
resume_pc_retry(res) == IF res.kind = "ok" THEN "done" ELSE "awaiting"

\* Every path after client.get returns or raises: there is no retry.
resume_pc(res) == "done"


----------------------------------------------------------------------------
(* What the clients send and what the upstream may answer *)

Text_a == <<"a">>
Text_1_m15 == <<"1", ",", "-", "1", ".", "5">>
Text_a_1 == <<"a", ",", "1">>
Text_1_1_1 == <<"1", ",", "1", ",", "1">>
LocationTexts == {Text_a, Text_1_m15, Text_a_1, Text_1_1_1}
UnitsValues == {"metric"}
DaysValues == {1}
QueryTexts == {<<"a", "a">>}
LimitValues == {5}
TickSteps == {CACHE_DURATION}

\* A run is about one request, which its clients send again and again.
ClientRequests ==
    {[endpoint |-> "current", location |-> l, units |-> u] :
        l \in LocationTexts, u \in UnitsValues}
    \cup {[endpoint |-> "forecast", location |-> l, units |-> u, days |-> d] :
        l \in LocationTexts, u \in UnitsValues, d \in DaysValues}
    \cup {[endpoint |-> "locations", query |-> q, limit |-> n] :
        q \in QueryTexts, n \in LimitValues}

CurrentBody ==
    [name |-> "Town", sys_country |-> "GB", main_temp |-> 10,
     main_feels_like |-> 9, main_humidity |-> 55, main_pressure |-> 1000,
     visibility |-> 9000, wind_speed |-> 3, wind_deg |-> 180,
     weather_main |-> "Rain", weather_description |-> "light rain",
     weather_icon |-> "10d", sys_sunrise |-> 21600, sys_sunset |-> 64800,
     timezone |-> 0]

ForecastBody ==
    [city_name |-> "Town", city_country |-> "GB",
     list |-> <<Sample(3600, 10, 1), Sample(50000, 20, 2)>>]

LocationItem ==
    [name |-> "Town", country |-> "GB", state |-> [kind |-> "str", s |-> "England"],
     lat |-> 51, lon |-> 0]

JsonArray(items) == [kind |-> "array", items |-> items]

Bodies(endpoint) ==
    CASE endpoint = "current" ->
            {CurrentBody, Drop(CurrentBody, "visibility"), Drop(CurrentBody, "name")}
      [] endpoint = "forecast" ->
            {ForecastBody, Drop(ForecastBody, "city_country"),
             [ForecastBody EXCEPT !.list = <<Drop(Sample(3600, 10, 1), "wind_speed")>>]}
      [] endpoint = "locations" ->
            {JsonArray(<<>>), JsonArray(<<LocationItem>>),
             JsonArray(<<Drop(LocationItem, "lat")>>)}

Statuses == {200, 401, 404, 500}

Responses(endpoint) ==
    {[kind |-> "RequestError"]}
    \cup {[kind |-> "http", status |-> s, body |-> None] : s \in Statuses \ {200}}
    \cup {[kind |-> "http", status |-> 200, body |-> b] : b \in Bodies(endpoint)}

----------------------------------------------------------------------------
(* The handlers.  A handler runs without interruption up to its            *)
(* await client.get(url) and again from the answer to its end.             *)

\* The entry, if any, that is stored for the key and younger than the TTL.
ValidEntry(cache, key, t) ==
    IF key \in DOMAIN cache /\ t - cache[key].timestamp < 600
    THEN [valid |-> TRUE, data |-> cache[key].data]
    ELSE NoEntry

\* Whether an entry is stored for the key that has reached the TTL.
StaleEntry(cache, key, t) ==
    key \in DOMAIN cache /\ t - cache[key].timestamp >= 600

\* From the call of the handler to client.get, a return or a raise.
HandlerStart(r, q) ==
    LET key == key_of(q)
        cached_data == get_cached_data(weather_cache, key, now)
        variant == IF q.endpoint = "locations" THEN "q" ELSE locate(q.location)
    IN  /\ pc[r] \in {"idle", "done"}
        /\ req' = [req EXCEPT ![r] = q]
        /\ lookup' = [lookup EXCEPT ![r] = ValidEntry(weather_cache, key, now)]
        /\ weather_cache' = cache_after_get(weather_cache, key, now)
        /\ response' = [response EXCEPT ![r] = NoResponse]
        /\ IF Truthy(cached_data)
           THEN /\ pc' = [pc EXCEPT ![r] = "done"]
                /\ result' = [result EXCEPT ![r] = Ok(cached_data)]
                /\ url' = [url EXCEPT ![r] = NoUrl]
                /\ calls' = [calls EXCEPT ![r] = 0]
           ELSE IF variant = "ValueError"
           THEN /\ pc' = [pc EXCEPT ![r] = "done"]
                /\ result' = [result EXCEPT ![r] =
                                HTTPException(400, "Invalid coordinates format")]
                /\ url' = [url EXCEPT ![r] = NoUrl]
                /\ calls' = [calls EXCEPT ![r] = 0]
           ELSE /\ pc' = [pc EXCEPT ![r] = "awaiting"]
                /\ result' = [result EXCEPT ![r] = NoResult]
                /\ url' = [url EXCEPT ![r] =
                             [path |-> CASE q.endpoint = "current" -> "weather"
                                         [] q.endpoint = "forecast" -> "forecast"
                                         [] q.endpoint = "locations" -> "direct",
                              variant |-> variant]]
                /\ calls' = [calls EXCEPT ![r] = 1]
        /\ UNCHANGED <<now, ticks, client_req, cache_obs, last_put, agg_vars, key_vars>>

\* From the answer of client.get to the return or raise.
HandlerResume(r, resp) ==
    LET res == handle_response(req[r], resp, now)
    IN  /\ pc[r] = "awaiting"
        /\ response' = [response EXCEPT ![r] = resp]
        /\ weather_cache' = store_result(weather_cache, key_of(req[r]), res, now)
        /\ pc' = [pc EXCEPT ![r] = resume_pc(res)]
        /\ calls' = [calls EXCEPT ![r] =
                        IF resume_pc(res) = "awaiting" THEN @ + 1 ELSE @]
        /\ result' = [result EXCEPT ![r] =
                        IF resume_pc(res) = "awaiting" THEN NoResult ELSE res]
        /\ UNCHANGED <<now, ticks, client_req, req, lookup, seen, url,
                       cache_obs, last_put, agg_vars, key_vars>>

\* get_current_weather, main.py:154-216
GetCurrentWeather(r) ==
    /\ client_req.endpoint = "current"
    /\ HandlerStart(r, client_req)
    /\ UNCHANGED seen

CurrentWeatherAnswered(r) ==
    /\ req[r].endpoint = "current"
    /\ \E resp \in Responses("current") : HandlerResume(r, resp)

\* get_weather_forecast, main.py:218-298
GetWeatherForecast(r) ==
    /\ client_req.endpoint = "forecast"
    /\ HandlerStart(r, client_req)
    /\ UNCHANGED seen

WeatherForecastAnswered(r) ==
    /\ req[r].endpoint = "forecast"
    /\ \E resp \in Responses("forecast") : HandlerResume(r, resp)

\* search_locations, main.py:300-342
SearchLocations(r) ==
    /\ client_req.endpoint = "locations"
    /\ HandlerStart(r, client_req)
    /\ UNCHANGED seen

LocationsAnswered(r) ==
    /\ req[r].endpoint = "locations"
    /\ \E resp \in Responses("locations") : HandlerResume(r, resp)

\* clear_cache, main.py:383-394
ClearCache ==
    /\ weather_cache' = EmptyCache
    /\ UNCHANGED <<now, ticks, req_vars, cache_obs, last_put, agg_vars, key_vars>>

ClockTick ==
    /\ \E d \in TickSteps : Tick(d, MaxTicks)
    /\ UNCHANGED <<weather_cache, req_vars, cache_obs, last_put, agg_vars, key_vars>>

Init ==
    /\ AggIdle
    /\ KeyIdle
    /\ weather_cache = EmptyCache
    /\ now = 0
    /\ ticks = 0
    /\ cache_obs = NoObs
    /\ last_put = NoPut
    /\ client_req \in ClientRequests
    /\ pc = [r \in Reqs |-> "idle"]
    /\ req = [r \in Reqs |-> NoReq]
    /\ lookup = [r \in Reqs |-> NoEntry]
    /\ seen = [r \in Reqs |-> NoSeen]
    /\ url = [r \in Reqs |-> NoUrl]
    /\ calls = [r \in Reqs |-> 0]
    /\ response = [r \in Reqs |-> NoResponse]
    /\ result = [r \in Reqs |-> NoResult]

Next ==
    \/ \E r \in Reqs : GetCurrentWeather(r)
    \/ \E r \in Reqs : CurrentWeatherAnswered(r)
    \/ \E r \in Reqs : GetWeatherForecast(r)
    \/ \E r \in Reqs : WeatherForecastAnswered(r)
    \/ \E r \in Reqs : SearchLocations(r)
    \/ \E r \in Reqs : LocationsAnswered(r)
    \/ ClearCache
    \/ ClockTick

Spec == Init /\ [][Next]_vars

----------------------------------------------------------------------------
(* Concurrent requests for one key: the current weather of one place, the  *)
(* upstream answering with the complete body or not at all.  Each request    *)
(* records what its lookup met.                                            *)

ConcRequests ==
    {q \in ClientRequests : q.endpoint = "current" /\ q.location = Text_a}

ConcResponses ==
    {resp \in Responses("current") :
        \/ resp.kind = "RequestError"
        \/ /\ resp.kind = "http"
           /\ resp.status = 200
           /\ resp.body = CurrentBody}

ConcInit ==
    /\ AggIdle
    /\ KeyIdle
    /\ weather_cache = EmptyCache
    /\ now = 0
    /\ ticks = 0
    /\ cache_obs = NoObs
    /\ last_put = NoPut
    /\ client_req \in ConcRequests
    /\ pc = [r \in Reqs |-> "idle"]
    /\ req = [r \in Reqs |-> NoReq]
    /\ lookup = [r \in Reqs |-> NoEntry]
    /\ seen = [r \in Reqs |-> NoSeen]
    /\ url = [r \in Reqs |-> NoUrl]
    /\ calls = [r \in Reqs |-> 0]
    /\ response = [r \in Reqs |-> NoResponse]
    /\ result = [r \in Reqs |-> NoResult]

ConcStart(r) ==
    /\ HandlerStart(r, client_req)
    /\ seen' = [seen EXCEPT ![r] =
                   [stale |-> StaleEntry(weather_cache, key_of(client_req), now),
                    peers |-> {p \in Reqs \ {r} : pc[p] = "awaiting"}]]

ConcAnswered(r) ==
    /\ req[r].endpoint = "current"
    /\ \E resp \in ConcResponses : HandlerResume(r, resp)

ConcNext ==
    \/ \E r \in Reqs : ConcStart(r)
    \/ \E r \in Reqs : ConcAnswered(r)
    \/ ClearCache
    \/ ClockTick

SpecConc == ConcInit /\ [][ConcNext]_vars

----------------------------------------------------------------------------
(* Claims about the handlers *)

IsHTTP(res, code) == res.kind = "HTTPException" /\ res.status_code = code
Weather(r) == req[r].endpoint \in {"current", "forecast"}
Answered(r) == pc[r] = "done" /\ response[r].kind # "none"

(* C2: when a request's key has a valid entry at cache-lookup time, the    *)
(* request returns that stored value and makes no upstream call.           *)
C2_ValidEntryIsReturned ==
    \A r \in Reqs :
        lookup[r].valid =>
            /\ pc[r] = "done"
            /\ result[r] = Ok(lookup[r].data)
            /\ calls[r] = 0

(* C3: no error is ever cached: a step that inserts or overwrites an entry *)
(* is the step of a request that got status 200, returned a value and      *)
(* stored that value under its own key; every stored value is a normalized *)
(* result.                                                                 *)
C3_StoredAreResults ==
    \A k \in DOMAIN weather_cache :
        weather_cache[k].data.kind \in {"WeatherResponse", "ForecastResponse", "list"}

C3_StoreOnlyOnSuccess ==
    \A k \in DOMAIN weather_cache' :
        (k \notin DOMAIN weather_cache \/ weather_cache'[k] # weather_cache[k]) =>
            \E r \in Reqs :
                /\ pc[r] = "awaiting" /\ pc'[r] = "done"
                /\ key_of(req[r]) = k
                /\ response'[r].kind = "http" /\ response'[r].status = 200
                /\ result'[r].kind = "ok"
                /\ weather_cache'[k].data = result'[r].value

C3_NoErrorCached == []C3_StoredAreResults /\ [][C3_StoreOnlyOnSuccess]_vars

\* A request failed on a 404 while another one's result stays stored.
C3_Witness ==
    \E r \in Reqs :
        /\ Answered(r)
        /\ response[r].kind = "http" /\ response[r].status = 404
        /\ IsHTTP(result[r], 404)
        /\ key_of(req[r]) \in DOMAIN weather_cache

(* C4: for a current-weather or forecast request that missed the cache, an *)
(* upstream 404 yields NotFound (404), an upstream 401 and any other       *)
(* non-200 status yield ServiceUnavailable (503), and so does a transport  *)
(* failure.                                                                *)
C4_UpstreamFailureClasses ==
    \A r \in Reqs :
        (Weather(r) /\ Answered(r)) =>
            /\ response[r].kind = "RequestError" => IsHTTP(result[r], 503)
            /\ response[r].kind = "http" =>
                /\ response[r].status = 404 => IsHTTP(result[r], 404)
                /\ response[r].status = 401 => IsHTTP(result[r], 503)
                /\ response[r].status \notin {200, 401, 404} => IsHTTP(result[r], 503)

\* A forecast request answered 404 that ended in NotFound.
C4_Witness ==
    \E r \in Reqs :
        /\ req[r].endpoint = "forecast"
        /\ Answered(r)
        /\ response[r].kind = "http" /\ response[r].status = 404
        /\ IsHTTP(result[r], 404)

(* C5: a status-200 payload that lacks a required field (name, country,    *)
(* coordinates, core weather code) ends in ServiceUnavailable (503).       *)
LacksRequired(endpoint, body) ==
    CASE endpoint = "current" ->
            ~({"name", "sys_country", "weather_main"} \subseteq DOMAIN body)
      [] endpoint = "forecast" ->
            ~({"city_name", "city_country"} \subseteq DOMAIN body)
      [] endpoint = "locations" ->
            \E i \in 1..Len(body.items) :
                ~({"name", "country", "lat", "lon"} \subseteq DOMAIN body.items[i])

C5_MalformedIsUnavailable ==
    \A r \in Reqs :
        (/\ Answered(r)
         /\ response[r].kind = "http" /\ response[r].status = 200
         /\ LacksRequired(req[r].endpoint, response[r].body))
            => IsHTTP(result[r], 503)

(* C6, as claimed: every malformed coordinate text, by wrong field count   *)
(* or by a non-numeric field, ends in InvalidInput with no upstream call.  *)
Fields(text) == Split(text, ",")
NonNumericPair(text) ==
    Len(Fields(text)) = 2 /\ \E i \in 1..2 : ~IsFloat(Fields(text)[i])
WrongFieldCount(text) == Len(Fields(text)) > 2

C6_MalformedCoordinatesRejected ==
    \A r \in Reqs :
        (Weather(r) /\ (NonNumericPair(req[r].location)
                        \/ WrongFieldCount(req[r].location))) =>
            /\ pc[r] = "done"
            /\ IsHTTP(result[r], 400)
            /\ calls[r] = 0

(* C6, amended: a location text of exactly two comma-separated fields, one *)
(* of them non-numeric, ends in InvalidInput with no upstream call; a text *)
(* of three or more fields is never InvalidInput: it is a place name, and  *)
(* its upstream call is the text variant.                                  *)
C6_NonNumericPairRejected ==
    \A r \in Reqs :
        Weather(r) =>
            /\ NonNumericPair(req[r].location) =>
                /\ pc[r] = "done"
                /\ IsHTTP(result[r], 400)
                /\ calls[r] = 0
            /\ WrongFieldCount(req[r].location) =>
                /\ ~IsHTTP(result[r], 400)
                /\ pc[r] = "awaiting" => (url[r].variant = "q" /\ calls[r] = 1)

\* "a,1" was rejected with 400 before any upstream call.
C6_Witness ==
    \E r \in Reqs :
        /\ Weather(r)
        /\ req[r].location = Text_a_1
        /\ pc[r] = "done"
        /\ IsHTTP(result[r], 400)
        /\ calls[r] = 0

(* C10: every request makes at most one upstream call: exactly one when it *)
(* misses the cache with well-formed input, and no further one after an    *)
(* upstream failure.                                                       *)
WellFormedInput(q) ==
    \/ q.endpoint = "locations"
    \/ ~Contains(q.location, ",")
    \/ (Len(Fields(q.location)) = 2 /\ \A i \in 1..2 : IsFloat(Fields(q.location)[i]))

C10_AtMostOneUpstreamCall ==
    \A r \in Reqs :
        /\ calls[r] <= 1
        /\ (pc[r] # "idle" /\ ~lookup[r].valid /\ WellFormedInput(req[r]))
              => calls[r] = 1
        /\ Answered(r) => calls[r] = 1

\* A request whose one upstream call failed has ended, with that one call.
C10_Witness ==
    \E r \in Reqs :
        /\ Answered(r)
        /\ response[r].kind = "RequestError"
        /\ result[r].kind = "HTTPException"
        /\ calls[r] = 1

----------------------------------------------------------------------------
(* C13: whatever the interleaving of concurrent requests, the staleness    *)
(* check of a get and its removal act on the same entry: a get(k) never    *)
(* removes an entry that is valid at the moment of the removal, so an      *)
(* entry freshly put by one request is never deleted by another request    *)
(* that had seen an older stale entry for k.                               *)

\* A step of a request removes an entry only if it has reached the TTL;
\* the one other step that removes entries is clear().
C13_RemovedWasStale ==
    \A k \in (DOMAIN weather_cache) \ (DOMAIN weather_cache') :
        \/ UNCHANGED req_vars
        \/ now - weather_cache[k].timestamp >= 600

\* The answer of a request's upstream call removes nothing.
C13_AnswerRemovesNothing ==
    \A r \in Reqs :
        (pc[r] = "awaiting" /\ pc'[r] = "done") =>
            (DOMAIN weather_cache) \subseteq (DOMAIN weather_cache')

C13_GetRemovesOnlyStale ==
    [][C13_RemovedWasStale /\ C13_AnswerRemovesNothing]_vars

\* One request removed a stale entry and waits for the upstream; meanwhile
\* another request stored a fresh entry for the same key.
C13_Witness ==
    \E r1, r2 \in Reqs :
        /\ r1 # r2
        /\ pc[r1] = "awaiting"
        /\ seen[r1].stale
        /\ Answered(r2)
        /\ result[r2].kind = "ok"
        /\ key_of(req[r1]) = key_of(req[r2])
        /\ Stored(weather_cache, key_of(req[r1]))
        /\ weather_cache[key_of(req[r1])] =
              [data |-> result[r2].value, timestamp |-> now]

----------------------------------------------------------------------------
(* C14: requests with the same fingerprint are not coalesced: a state is   *)
(* reachable in which two concurrent requests with one fingerprint both    *)
(* missed the cache, both called the upstream and both wrote the cache,    *)
(* and the entry left for the fingerprint is the one written last.         *)

\* A request that missed while others were waiting for the upstream made
\* its own call.
C14_EachMissCalls ==
    \A r \in Reqs :
        (pc[r] # "idle" /\ seen[r].peers # {} /\ ~lookup[r].valid) =>
            calls[r] = 1

\* A request that stores leaves its own value, stamped with the time of
\* its write, whatever was stored before.
C14_WriterLeavesItsEntry ==
    \A r \in Reqs :
        (pc[r] = "awaiting" /\ pc'[r] = "done" /\ result'[r].kind = "ok") =>
            /\ Stored(weather_cache', key_of(req[r]))
            /\ weather_cache'[key_of(req[r])] =
                  [data |-> result'[r].value, timestamp |-> now]

C14_NoCoalescingLastWriteWins ==
    /\ []C14_EachMissCalls
    /\ [][C14_WriterLeavesItsEntry]_vars

\* r1 was waiting for the upstream when r2 missed; both called, both
\* stored, r2 later than r1, and r2's entry is the one stored.
C14_Witness ==
    \E r1, r2 \in Reqs :
        /\ r1 # r2
        /\ Answered(r1) /\ Answered(r2)
        /\ key_of(req[r1]) = key_of(req[r2])
        /\ r1 \in seen[r2].peers
        /\ ~lookup[r1].valid /\ ~lookup[r2].valid
        /\ calls[r1] = 1 /\ calls[r2] = 1
        /\ result[r1].kind = "ok" /\ result[r2].kind = "ok"
        /\ result[r1].value.timestamp < result[r2].value.timestamp
        /\ weather_cache[key_of(req[r2])] =
              [data |-> result[r2].value,
               timestamp |-> result[r2].value.timestamp]

----------------------------------------------------------------------------
(* C18: for current-weather and forecast requests, a location text made of *)
(* exactly two comma-separated numeric fields is taken as coordinates and  *)
(* its upstream call is the lat/lon variant, never the place-name variant; *)
(* a location text without a comma is taken as a place name and its        *)
(* upstream call is the text variant.                                      *)

TwoNumericFields(text) ==
    Len(Fields(text)) = 2 /\ \A i \in 1..2 : IsFloat(Fields(text)[i])
NoComma(text) == ~Contains(text, ",")

C18_LocationClassified ==
    \A r \in Reqs :
        (Weather(r) /\ calls[r] > 0) =>
            /\ url[r].path = (IF req[r].endpoint = "current"
                              THEN "weather" ELSE "forecast")
            /\ TwoNumericFields(req[r].location) => url[r].variant = "latlon"
            /\ NoComma(req[r].location) => url[r].variant = "q"

\* "1,-1.5" was sent upstream as lat/lon.
C18_Witness ==
    \E r \in Reqs :
        /\ Weather(r)
        /\ req[r].location = Text_1_m15
        /\ Answered(r)
        /\ calls[r] = 1
        /\ url[r].variant = "latlon"

\* "a" was sent upstream as q.
C18_WitnessName ==
    \E r \in Reqs :
        /\ Weather(r)
        /\ req[r].location = Text_a
        /\ Answered(r)
        /\ calls[r] = 1
        /\ url[r].variant = "q"

----------------------------------------------------------------------------
(* C20: for a location search that misses the cache, every upstream status *)
(* other than 200, 404 included, yields a 503 (never a 404), and a         *)
(* transport failure yields a 503.                                         *)

C20_SearchFailuresAreUnavailable ==
    \A r \in Reqs :
        (req[r].endpoint = "locations" /\ Answered(r)) =>
            /\ response[r].kind = "RequestError" => IsHTTP(result[r], 503)
            /\ (response[r].kind = "http" /\ response[r].status # 200) =>
                   IsHTTP(result[r], 503)

\* The upstream answered a location search with 404 and the client got 503.
C20_Witness ==
    \E r \in Reqs :
        /\ req[r].endpoint = "locations"
        /\ Answered(r)
        /\ response[r].kind = "http" /\ response[r].status = 404
        /\ IsHTTP(result[r], 503)
        /\ calls[r] = 1

====
